---- MODULE Spec2Model ----
(***************************************************************************)
(* Model of agents/weather_agent.py: the two tool functions get_weather    *)
(* and get_forecast, and the factory weather_agent.                        *)
(*                                                                         *)
(* A Python str is a sequence of one-character strings, so str.lower(),    *)
(* f-string formatting and "\n".join are computed character by character.  *)
(* A dict returned by get_weather is an object on a heap: the caller gets  *)
(* a reference and may write through it.                                   *)
(***************************************************************************)
EXTENDS Integers, Sequences, FiniteSets, TLC

VARIABLES
    heap,       \* object id -> current contents of a dict a caller still holds
    allocated,  \* number of dict objects created so far (ids are 1..allocated)
    calls,      \* number of steps taken so far
    last,       \* the most recent call: function, arguments, outcome, value
    log,        \* the lines the most recent call sent to the logger
    observed    \* every (location, record as returned) seen from get_weather

vars == <<heap, allocated, calls, last, log, observed>>

(***************************************************************************)
(* Bounds                                                                  *)
(***************************************************************************)
MaxCalls == 3     \* steps (calls and caller writes) in one behaviour
MaxNegDays == 2     \* days arguments go down to -MaxNegDays
MaxDays == 10       \* and up to MaxDays

(***************************************************************************)
(* Strings                                                                 *)
(***************************************************************************)
NL == "\n"

UpperLetters ==
    <<"A","B","C","D","E","F","G","H","I","J","K","L","M",
      "N","O","P","Q","R","S","T","U","V","W","X","Y","Z">>

LowerLetters ==
    <<"a","b","c","d","e","f","g","h","i","j","k","l","m",
      "n","o","p","q","r","s","t","u","v","w","x","y","z">>

\* Two non-ASCII characters whose lower-casing is not the identity:
\* U+212A KELVIN SIGN lowers to "k"; U+0130 (capital I with dot above)
\* lowers to the two characters "i", U+0307.
KelvinSign == "K_U212A"
CapitalIDot == "I_U0130"
CombiningDot == "U0307"

\* str.lower() of one character (the result may be longer than one).
LowerChar(c) ==
    IF \E i \in 1..26 : UpperLetters[i] = c
    THEN <<LowerLetters[CHOOSE i \in 1..26 : UpperLetters[i] = c]>>
    ELSE IF c = KelvinSign THEN <<"k">>
    ELSE IF c = CapitalIDot THEN <<"i", CombiningDot>>
    ELSE <<c>>

RECURSIVE Lower(_)
Lower(s) == IF s = <<>> THEN <<>> ELSE LowerChar(Head(s)) \o Lower(Tail(s))

\* str.strip() restricted to the whitespace the inputs contain.
IsSpace(c) == c \in {" ", NL, "\t"}

RECURSIVE LStrip(_)
LStrip(s) == IF s /= <<>> /\ IsSpace(Head(s)) THEN LStrip(Tail(s)) ELSE s

RECURSIVE RStrip(_)
RStrip(s) ==
    IF s /= <<>> /\ IsSpace(s[Len(s)]) THEN RStrip(SubSeq(s, 1, Len(s) - 1)) ELSE s

Strip(s) == RStrip(LStrip(s))

(***************************************************************************)
(* get_weather                                                             *)
(***************************************************************************)
seattle       == <<"s","e","a","t","t","l","e">>
san_francisco == <<"s","a","n"," ","f","r","a","n","c","i","s","c","o">>
new_york_city == <<"n","e","w"," ","y","o","r","k"," ","c","i","t","y">>
miami         == <<"m","i","a","m","i">>
chicago       == <<"c","h","i","c","a","g","o">>

\* The keys of the dict literal, in the order it lists them.
weather_keys == <<seattle, san_francisco, new_york_city, miami, chicago>>

\* The values of the dict literal, in the same order.
weather_values ==
    << [temperature |-> 11, conditions |-> "rainy", humidity |-> 75,
        wind_speed |-> 12, feels_like |-> 10],
       [temperature |-> 14, conditions |-> "foggy", humidity |-> 85,
        wind_speed |-> 8, feels_like |-> 13],
       [temperature |-> 18, conditions |-> "sunny", humidity |-> 60,
        wind_speed |-> 10, feels_like |-> 17],
       [temperature |-> 29, conditions |-> "hot and humid", humidity |-> 90,
        wind_speed |-> 5, feels_like |-> 32],
       [temperature |-> 9, conditions |-> "windy", humidity |-> 65,
        wind_speed |-> 20, feels_like |-> 6] >>

default_weather ==
    [temperature |-> 21, conditions |-> "partly cloudy", humidity |-> 50,
     wind_speed |-> 10, feels_like |-> 20]

Fields == {"temperature", "conditions", "humidity", "wind_speed", "feels_like"}

\* location_lower = location.lower()
location_lower_raw(location) == location

location_lower_strip(location) == Lower(Strip(location))

location_lower(location) == Lower(location)

\* Evaluating the dict literal inside the function body creates five new
\* record objects on every call.  The result is the heap with those objects
\* added and the table itself: key index -> object id.
weather_data_shared(h, n) ==
    [ heap  |-> [id \in DOMAIN h \cup (1..5) |->
                    IF id \in DOMAIN h THEN h[id] ELSE weather_values[id]],
      table |-> [i \in 1..5 |-> i],
      count |-> IF n < 5 THEN 5 ELSE n ]

weather_data(h, n) ==
    [ heap  |-> [id \in DOMAIN h \cup ((n + 1)..(n + 5)) |->
                    IF id \in DOMAIN h THEN h[id] ELSE weather_values[id - n]],
      table |-> [i \in 1..5 |-> n + i],
      count |-> n + 5 ]

\* location_lower in weather_data
InTable(key) == \E i \in 1..5 : weather_keys[i] = key

\* weather_data[location_lower]: the object stored under the key, KeyError
\* when the key is absent.
Subscript(table, key) ==
    IF InTable(key)
    THEN [outcome |-> "return",
          ref |-> table[CHOOSE i \in 1..5 : weather_keys[i] = key]]
    ELSE [outcome |-> "raise", error |-> "KeyError"]

\* The body of get_weather once the table is built: the outcome, the heap
\* and the number of objects after the call.  The default record is a new
\* dict as well.
get_weather_nocheck(location, wd) ==
    LET got == Subscript(wd.table, location_lower(location))
    IN  IF got.outcome = "return"
        THEN [outcome |-> "return", ref |-> got.ref, found |-> TRUE,
              heap |-> wd.heap, count |-> wd.count]
        ELSE [outcome |-> "raise", error |-> got.error, found |-> FALSE,
              heap |-> wd.heap, count |-> wd.count]

get_weather(location, wd) ==
    LET key == location_lower(location)
    IN  IF InTable(key)
        THEN [outcome |-> "return", ref |-> Subscript(wd.table, key).ref,
              found |-> TRUE, heap |-> wd.heap, count |-> wd.count]
        ELSE [outcome |-> "return", ref |-> wd.count + 1, found |-> FALSE,
              heap |-> [id \in DOMAIN wd.heap \cup {wd.count + 1} |->
                           IF id \in DOMAIN wd.heap THEN wd.heap[id]
                           ELSE default_weather],
              count |-> wd.count + 1]

\* The lines get_weather logs (level, fixed text of the message).
get_weather_log(found) ==
    << <<"INFO",  "[get_weather] Called with location: ">>,
       <<"DEBUG", "[get_weather] Location type: ">>,
       <<"DEBUG", "[get_weather] Normalized location: ">>,
       <<"DEBUG", "[get_weather] Available locations: ">>,
       IF found THEN <<"INFO", "[get_weather] Found weather data for ">>
       ELSE <<"INFO", "[get_weather] Using default weather data for ">> >>

(***************************************************************************)
(* get_forecast                                                            *)
(***************************************************************************)
Digits == <<"0","1","2","3","4","5","6","7","8","9">>

RECURSIVE NatStr(_)
NatStr(n) ==
    IF n < 10 THEN <<Digits[n + 1]>>
    ELSE NatStr(n \div 10) \o <<Digits[(n % 10) + 1]>>

\* f"{n}" for an int
IntStr(n) == IF n < 0 THEN <<"-">> \o NatStr(0 - n) ELSE NatStr(n)

Min(a, b) == IF a < b THEN a ELSE b

Max(a, b) == IF a > b THEN a ELSE b

\* range(start, stop) as the sequence of its values
Range(start, stop) == [i \in 1..(stop - start) |-> start + i - 1]

\* sep.join(parts)
RECURSIVE Join(_, _)
Join(sep, parts) ==
    IF parts = <<>> THEN <<>>
    ELSE IF Len(parts) = 1 THEN parts[1]
    ELSE parts[1] \o sep \o Join(sep, Tail(parts))

default_days == 3

\* range(1, min(days, 7) + 1)
forecast_range_unbounded(days) == Range(1, days + 1)

forecast_range_floor(days) == Range(1, Max(1, Min(days, 7)) + 1)

forecast_range(days) == Range(1, Min(days, 7) + 1)

\* f"Day {day}: Partly cloudy, {60 + day * 2}\u00B0F"
forecast_line_plus_one(day) ==
    <<"D","a","y"," ">> \o IntStr(day)
        \o <<":"," ","P","a","r","t","l","y"," ","c","l","o","u","d","y",","," ">>
        \o IntStr(60 + day + 2) \o <<"°","F">>

forecast_line(day) ==
    <<"D","a","y"," ">> \o IntStr(day)
        \o <<":"," ","P","a","r","t","l","y"," ","c","l","o","u","d","y",","," ">>
        \o IntStr(60 + day * 2) \o <<"°","F">>

\* f"{days}-day forecast for {location}:\n"
forecast_header_clamped(location, days) ==
    IntStr(Min(days, 7))
        \o <<"-","d","a","y"," ","f","o","r","e","c","a","s","t"," ","f","o","r"," ">>
        \o location \o <<":", NL>>

forecast_header(location, days) ==
    IntStr(days)
        \o <<"-","d","a","y"," ","f","o","r","e","c","a","s","t"," ","f","o","r"," ">>
        \o location \o <<":", NL>>

get_forecast(location, days) ==
    LET r == forecast_range(days)
        forecast == [i \in DOMAIN r |-> forecast_line(r[i])]
    IN  [outcome |-> "return",
         value |-> forecast_header(location, days) \o Join(<<NL>>, forecast)]

get_forecast_log ==
    << <<"INFO",  "[get_forecast] Called with location: ">>,
       <<"DEBUG", "[get_forecast] Location type: ">>,
       <<"INFO",  "[get_forecast] Generated forecast: ">> >>

(***************************************************************************)
(* weather_agent                                                           *)
(***************************************************************************)
agent_name == "weather_agent"

agent_instructions ==
    "You are a helpful weather assistant. Use the get_weather and get_forecast functions to help users with weather information. Always provide friendly and informative responses."

\* The keyword arguments of the ChatAgent(...) call.
agent_arguments_one_tool(chat_client) ==
    [name |-> agent_name, instructions |-> agent_instructions,
     chat_client |-> chat_client, tools |-> <<"get_weather">>]

agent_arguments(chat_client) ==
    [name |-> agent_name, instructions |-> agent_instructions,
     chat_client |-> chat_client, tools |-> <<"get_weather", "get_forecast">>]

\* The constructor belongs to the framework: it either returns the agent
\* object it built from the arguments or raises one of its own errors.
ConstructorErrors == {"TypeError", "ValidationError", "ServiceInitializationError"}

ChatAgent(arguments) ==
    {[outcome |-> "return", value |-> [built_from |-> arguments]]}
        \cup {[outcome |-> "raise", error |-> e] : e \in ConstructorErrors}

weather_agent_log_before ==
    << <<"INFO",  "[weather_agent] Creating weather agent">>,
       <<"DEBUG", "[weather_agent] Chat client type: ">>,
       <<"DEBUG", "[weather_agent] Available tools: ">> >>

weather_agent_log_success ==
    << <<"INFO", "[weather_agent] Weather agent created successfully">> >>

\* weather_agent, given what the constructor call did: no try/except
\* surrounds the call, so an error leaves the function at that point.
weather_agent_wrapped(constructed) ==
    IF constructed.outcome = "raise"
    THEN [outcome |-> "raise", error |-> "RuntimeError",
          log |-> weather_agent_log_before \o weather_agent_log_success]
    ELSE [outcome |-> "return", value |-> constructed.value,
          log |-> weather_agent_log_before \o weather_agent_log_success]

weather_agent(constructed) ==
    IF constructed.outcome = "raise"
    THEN [outcome |-> "raise", error |-> constructed.error,
          log |-> weather_agent_log_before]
    ELSE [outcome |-> "return", value |-> constructed.value,
          log |-> weather_agent_log_before \o weather_agent_log_success]

(***************************************************************************)
(* Inputs                                                                  *)
(***************************************************************************)
Locations ==
    { seattle,
      <<"S","E","A","T","T","L","E">>,
      <<"M","i","a","m","i">>,
      <<"P","a","r","i","s">>,
      <<>>,
      <<" ","s","e","a","t","t","l","e">> }

Days == (0 - MaxNegDays)..MaxDays

\* The upper-case form of a lower-case letter (other characters unchanged).
UpperChar(c) ==
    IF \E i \in 1..26 : LowerLetters[i] = c
    THEN UpperLetters[CHOOSE i \in 1..26 : LowerLetters[i] = c]
    ELSE c

\* Every mix of upper and lower case of a string.
RECURSIVE CaseVariants(_)
CaseVariants(s) ==
    IF s = <<>> THEN {<<>>}
    ELSE {<<c>> \o t : c \in {Head(s), UpperChar(Head(s))}, t \in CaseVariants(Tail(s))}

\* Strings one edit away from s: a character dropped, or a blank, a tab or
\* a newline put in front or behind.
NearMisses(s) ==
    {SubSeq(s, 1, i - 1) \o SubSeq(s, i + 1, Len(s)) : i \in 1..Len(s)}
        \cup {<<w>> \o s : w \in {" ", "\t", NL}}
        \cup {s \o <<w>> : w \in {" ", "\t", NL}}

\* Inputs of the single-call specification: every case mix of the five
\* keys, their near misses in every case mix of seattle and miami, and
\* strings whose lower-casing goes through the non-ASCII rules.
LookupInputs ==
    UNION {CaseVariants(weather_keys[i]) : i \in 1..5}
        \cup UNION {NearMisses(weather_keys[i]) : i \in 1..5}
        \cup UNION {NearMisses(v) : v \in CaseVariants(miami)}
        \cup { <<"N","E","W"," ","Y","O","R", KelvinSign," ","C","I","T","Y">>,
               <<"m", CapitalIDot, "a","m","i">>,
               <<"M","I","A","M", CapitalIDot>>,
               <<"T","o","k","y","o">>,
               <<"s","a","n","f","r","a","n","c","i","s","c","o">>,
               <<"n","e","w"," ","y","o","r","k">> }
        \cup Locations

ChatClients == {"OpenAIChatClient", "AzureOpenAIChatClient", "StubClient"}

\* What a caller may store into a record it was given.
WrittenValues == {0 - 40}

(***************************************************************************)
(* State machine: the module's three functions called in any order, and    *)
(* callers writing into the dicts get_weather gave them.                   *)
(***************************************************************************)
NoCall == [fn |-> "none"]

Init ==
    /\ heap = <<>>
    /\ allocated = 0
    /\ calls = 0
    /\ last = NoCall
    /\ log = <<>>
    /\ observed = {}

\* A call get_weather(location).  Objects no caller holds are dropped
\* from the heap when the call returns.
GetWeather(location) ==
    /\ calls < MaxCalls
    /\ LET res == get_weather(location, weather_data(heap, allocated))
           kept == DOMAIN heap \cup (IF res.outcome = "return" THEN {res.ref} ELSE {})
       IN  /\ heap' = [id \in kept |-> res.heap[id]]
           /\ allocated' = res.count
           /\ last' = IF res.outcome = "return"
                      THEN [fn |-> "get_weather", location |-> location,
                            outcome |-> "return", ref |-> res.ref,
                            value |-> res.heap[res.ref]]
                      ELSE [fn |-> "get_weather", location |-> location,
                            outcome |-> "raise", error |-> res.error]
           /\ log' = get_weather_log(res.found)
           /\ observed' = IF res.outcome = "return"
                          THEN observed \cup
                               {[location |-> location, record |-> res.heap[res.ref]]}
                          ELSE observed
    /\ calls' = calls + 1

\* The holder of a returned dict assigns to one of its keys.
WriteRecord(ref, field, v) ==
    /\ calls < MaxCalls
    /\ ref \in DOMAIN heap
    /\ heap' = [heap EXCEPT ![ref][field] = v]
    /\ calls' = calls + 1
    /\ UNCHANGED <<allocated, last, log, observed>>

\* A call get_forecast(location, days).
GetForecast(location, days) ==
    /\ calls < MaxCalls
    /\ LET res == get_forecast(location, days)
       IN  last' = [fn |-> "get_forecast", location |-> location, days |-> days,
                    defaulted |-> FALSE, outcome |-> res.outcome, value |-> res.value]
    /\ log' = get_forecast_log
    /\ calls' = calls + 1
    /\ UNCHANGED <<heap, allocated, observed>>

\* A call get_forecast(location): days takes its default.
GetForecastDefault(location) ==
    /\ calls < MaxCalls
    /\ LET res == get_forecast(location, default_days)
       IN  last' = [fn |-> "get_forecast", location |-> location,
                    days |-> default_days, defaulted |-> TRUE,
                    outcome |-> res.outcome, value |-> res.value]
    /\ log' = get_forecast_log
    /\ calls' = calls + 1
    /\ UNCHANGED <<heap, allocated, observed>>

\* A call weather_agent(chat_client); the constructor does one of the
\* things it can do.
WeatherAgent(chat_client) ==
    /\ calls < MaxCalls
    /\ \E constructed \in ChatAgent(agent_arguments(chat_client)) :
          LET res == weather_agent(constructed)
          IN  /\ last' = IF res.outcome = "return"
                         THEN [fn |-> "weather_agent", chat_client |-> chat_client,
                               constructed |-> constructed,
                               outcome |-> "return", value |-> res.value]
                         ELSE [fn |-> "weather_agent", chat_client |-> chat_client,
                               constructed |-> constructed,
                               outcome |-> "raise", error |-> res.error]
              /\ log' = res.log
    /\ calls' = calls + 1
    /\ UNCHANGED <<heap, allocated, observed>>

Next ==
    \/ \E location \in Locations : GetWeather(location)
    \/ \E ref \in DOMAIN heap, field \in Fields, v \in WrittenValues :
          WriteRecord(ref, field, v)
    \/ \E location \in Locations, days \in Days : GetForecast(location, days)
    \/ \E location \in Locations : GetForecastDefault(location)
    \/ \E chat_client \in ChatClients : WeatherAgent(chat_client)

Spec == Init /\ [][Next]_vars

\* One call of get_weather from the initial state, over the large input set.
NextLookup == calls = 0 /\ \E location \in LookupInputs : GetWeather(location)

SpecLookup == Init /\ [][NextLookup]_vars

TypeOK ==
    /\ allocated \in Nat
    /\ calls \in 0..MaxCalls
    /\ DOMAIN heap \subseteq 1..allocated

(***************************************************************************)
(* What the documentation states, written out independently of the         *)
(* operators above.                                                        *)
(***************************************************************************)
DocumentedRecord(key) ==
    IF key = seattle THEN
        [temperature |-> 11, conditions |-> "rainy", humidity |-> 75,
         wind_speed |-> 12, feels_like |-> 10]
    ELSE IF key = san_francisco THEN
        [temperature |-> 14, conditions |-> "foggy", humidity |-> 85,
         wind_speed |-> 8, feels_like |-> 13]
    ELSE IF key = new_york_city THEN
        [temperature |-> 18, conditions |-> "sunny", humidity |-> 60,
         wind_speed |-> 10, feels_like |-> 17]
    ELSE IF key = miami THEN
        [temperature |-> 29, conditions |-> "hot and humid", humidity |-> 90,
         wind_speed |-> 5, feels_like |-> 32]
    ELSE IF key = chicago THEN
        [temperature |-> 9, conditions |-> "windy", humidity |-> 65,
         wind_speed |-> 20, feels_like |-> 6]
    ELSE
        [temperature |-> 21, conditions |-> "partly cloudy", humidity |-> 50,
         wind_speed |-> 10, feels_like |-> 20]

KnownKeys == {seattle, san_francisco, new_york_city, miami, chicago}

\* The decimal text of an integer in -99..99, digit by digit.
Decimal(n) ==
    LET m == IF n < 0 THEN 0 - n ELSE n
        sign == IF n < 0 THEN <<"-">> ELSE <<>>
        tens == IF m >= 10 THEN <<Digits[(m \div 10) + 1]>> ELSE <<>>
    IN  sign \o tens \o <<Digits[(m % 10) + 1]>>

DocumentedHeader(location, days) ==
    Decimal(days)
        \o <<"-","d","a","y"," ","f","o","r","e","c","a","s","t"," ","f","o","r"," ">>
        \o location \o <<":">>

DocumentedTemperature ==
    << <<"6","2">>, <<"6","4">>, <<"6","6">>, <<"6","8">>,
       <<"7","0">>, <<"7","2">>, <<"7","4">> >>

DocumentedLine(n) ==
    <<"D","a","y"," ", Digits[n + 1],
      ":"," ","P","a","r","t","l","y"," ","c","l","o","u","d","y",","," ">>
        \o Decimal(60 + 2 * n) \o <<"°","F">>

\* The header followed by the lines of days 1..n, each after a newline.
RECURSIVE DocumentedForecast(_, _, _)
DocumentedForecast(location, days, n) ==
    IF n = 0 THEN DocumentedHeader(location, days)
    ELSE DocumentedForecast(location, days, n - 1) \o <<NL>> \o DocumentedLine(n)

\* The lines of a text: the pieces between newlines, none for the empty text.
RECURSIVE TextLines(_)
TextLines(t) ==
    IF t = <<>> THEN <<>>
    ELSE IF \E i \in 1..Len(t) : t[i] = NL
    THEN LET i == CHOOSE i \in 1..Len(t) : t[i] = NL /\ \A j \in 1..(i - 1) : t[j] /= NL
         IN  <<SubSeq(t, 1, i - 1)>> \o TextLines(SubSeq(t, i + 1, Len(t)))
    ELSE <<t>>

\* Where the text "-day forecast for " starts in an output.
MarkerAt(out) ==
    CHOOSE i \in 1..Len(out) :
        /\ i + 1 <= Len(out)
        /\ out[i] = "-" /\ out[i + 1] = "d"
        /\ \A j \in 1..(i - 1) : ~(out[j] = "-" /\ out[j + 1] = "d")

\* The value of a decimal text with an optional sign.
RECURSIVE DigitsValue(_)
DigitsValue(t) ==
    IF t = <<>> THEN 0
    ELSE 10 * DigitsValue(SubSeq(t, 1, Len(t) - 1))
            + (CHOOSE d \in 0..9 : Digits[d + 1] = t[Len(t)])

\* The day count an output shows in its header.
ShownCount(out) ==
    LET t == SubSeq(out, 1, MarkerAt(out) - 1)
    IN  IF t[1] = "-" THEN 0 - DigitsValue(Tail(t)) ELSE DigitsValue(t)

\* The lines that follow the header of a forecast for location.
ForecastLines(out, location) ==
    TextLines(SubSeq(out, MarkerAt(out) + 18 + Len(location) + 2, Len(out)))

IsWeatherCall == last.fn = "get_weather"

IsForecastCall == last.fn = "get_forecast"

IsAgentCall == last.fn = "weather_agent"

----------------------------------------------------------------------------
\* C1: for every location whose lower-cased form is one of the five known
\* keys, in any mix of upper and lower case, get_weather returns exactly the
\* literal record documented for that key.
KnownLocationGetsItsRecord ==
    (IsWeatherCall /\ Lower(last.location) \in KnownKeys)
        => /\ last.outcome = "return"
           /\ last.value = DocumentedRecord(Lower(last.location))

KnownLocationWitness ==
    /\ IsWeatherCall
    /\ last.location = <<"S","E","A","T","T","L","E">>
    /\ last.outcome = "return"
    /\ last.value.temperature = 11

\* C2: for every location whose lower-cased form is not one of the five
\* keys (the empty string and keys with surrounding whitespace included),
\* get_weather returns exactly the default record.
UnknownLocationGetsDefault ==
    (IsWeatherCall /\ Lower(last.location) \notin KnownKeys)
        => /\ last.outcome = "return"
           /\ last.value =
                [temperature |-> 21, conditions |-> "partly cloudy",
                 humidity |-> 50, wind_speed |-> 10, feels_like |-> 20]

UnknownLocationWitness ==
    /\ IsWeatherCall
    /\ last.location = <<" ","s","e","a","t","t","l","e">>
    /\ last.outcome = "return"
    /\ last.value.conditions = "partly cloudy"

\* C3: get_weather is total over strings: every call returns, the value is
\* one of the five specific records or the default record, and no call ends
\* in an error.
GetWeatherTotal ==
    IsWeatherCall
        => /\ last.outcome = "return"
           /\ last.value \in {DocumentedRecord(k) : k \in KnownKeys \cup {<<>>}}

GetWeatherTotalWitness ==
    /\ IsWeatherCall
    /\ last.location = <<>>
    /\ last.outcome = "return"
    /\ last.value.humidity = 50
    /\ log[5][2] = "[get_weather] Using default weather data for "

\* C4: for days in 1..7 (3 when omitted) get_forecast returns the header
\* "{days}-day forecast for {location}:" with the location verbatim, then
\* one line "Day {n}: Partly cloudy, {60 + 2n}°F" per n = 1..days in
\* ascending order, joined by single newlines, with no trailing newline.
ForecastInRangeExact ==
    /\ (IsForecastCall /\ last.days \in 1..7)
        => /\ last.outcome = "return"
           /\ last.value = DocumentedForecast(last.location, last.days, last.days)
           /\ \A n \in 1..last.days :
                ForecastLines(last.value, last.location)[n]
                    = <<"D","a","y"," ", Digits[n + 1],
                        ":"," ","P","a","r","t","l","y"," ",
                        "c","l","o","u","d","y",","," ",
                        DocumentedTemperature[n][1], DocumentedTemperature[n][2],
                        "°","F">>
           /\ last.value[Len(last.value)] /= NL
    /\ (IsForecastCall /\ last.defaulted) => last.days = 3
    /\ (IsForecastCall /\ last.location = <<"P","a","r","i","s">> /\ last.days = 3)
        => last.value =
             <<"3","-","d","a","y"," ","f","o","r","e","c","a","s","t"," ",
               "f","o","r"," ","P","a","r","i","s",":", NL,
               "D","a","y"," ","1",":"," ","P","a","r","t","l","y"," ",
               "c","l","o","u","d","y",","," ","6","2","°","F", NL,
               "D","a","y"," ","2",":"," ","P","a","r","t","l","y"," ",
               "c","l","o","u","d","y",","," ","6","4","°","F", NL,
               "D","a","y"," ","3",":"," ","P","a","r","t","l","y"," ",
               "c","l","o","u","d","y",","," ","6","6","°","F">>

ForecastInRangeWitness ==
    /\ IsForecastCall
    /\ last.location = <<"P","a","r","i","s">>
    /\ last.days = 3
    /\ last.defaulted
    /\ Len(ForecastLines(last.value, last.location)) = 3

\* C5: for days above 7 the output has exactly seven forecast lines, those
\* of days 1 to 7 in order, and none for a later day; for every days the
\* number of forecast lines is at most 7.
ForecastCappedAtSeven ==
    /\ (IsForecastCall /\ last.days > 7)
        => ForecastLines(last.value, last.location)
             = [n \in 1..7 |-> DocumentedLine(n)]
    /\ IsForecastCall => Len(ForecastLines(last.value, last.location)) <= 7

ForecastCappedWitness ==
    /\ IsForecastCall
    /\ last.location = <<"P","a","r","i","s">>
    /\ last.days = 10
    /\ Len(ForecastLines(last.value, last.location)) = 7

\* C6: for days <= 0 get_forecast does not fail, and its output is the
\* header line alone, that is the header and the newline that ends it:
\* no forecast line follows.
ForecastNonPositiveIsHeaderOnly ==
    (IsForecastCall /\ last.days <= 0)
        => /\ last.outcome = "return"
           /\ last.value = DocumentedHeader(last.location, last.days) \o <<NL>>
           /\ ForecastLines(last.value, last.location) = <<>>

ForecastNonPositiveWitness ==
    /\ IsForecastCall
    /\ last.location = <<"P","a","r","i","s">>
    /\ last.days = 0
    /\ last.outcome = "return"

\* C7 as stated: the day count get_forecast uses, both the count shown in
\* the header and the number of Day lines, is always a value in 1..7.
DaysClampedToOneSeven ==
    IsForecastCall
        => /\ ShownCount(last.value) \in 1..7
           /\ Len(ForecastLines(last.value, last.location)) \in 1..7

\* C7 amended: only the number of Day lines is bounded, and only from
\* above: it is days for days in 1..7, 7 for days above 7 and 0 for
\* days <= 0; the header shows days as passed, unclamped.
DaysCappedAboveOnly ==
    IsForecastCall
        => /\ ShownCount(last.value) = last.days
           /\ last.days > 7 => Len(ForecastLines(last.value, last.location)) = 7
           /\ last.days \in 1..7
                => Len(ForecastLines(last.value, last.location)) = last.days
           /\ last.days <= 0 => Len(ForecastLines(last.value, last.location)) = 0

DaysCappedWitness ==
    /\ IsForecastCall
    /\ last.days = 10
    /\ ShownCount(last.value) = 10
    /\ Len(ForecastLines(last.value, last.location)) = 7

\* C8: when the constructor accepts the client, weather_agent returns the
\* agent the constructor built from exactly: name "weather_agent", the fixed
\* instructions, the supplied client, and the two tools get_weather and
\* get_forecast and nothing else.
AgentBuiltFromConfiguration ==
    (IsAgentCall /\ last.constructed.outcome = "return")
        => /\ last.outcome = "return"
           /\ last.value = last.constructed.value
           /\ last.value.built_from.name = "weather_agent"
           /\ last.value.built_from.instructions =
                "You are a helpful weather assistant. Use the get_weather and get_forecast functions to help users with weather information. Always provide friendly and informative responses."
           /\ last.value.built_from.chat_client = last.chat_client
           /\ Len(last.value.built_from.tools) = 2
           /\ {last.value.built_from.tools[i] : i \in 1..2}
                = {"get_weather", "get_forecast"}
           /\ DOMAIN last.value.built_from
                = {"name", "instructions", "chat_client", "tools"}

AgentBuiltWitness ==
    /\ IsAgentCall
    /\ last.chat_client = "StubClient"
    /\ last.outcome = "return"
    /\ log[Len(log)][2] = "[weather_agent] Weather agent created successfully"

\* C9: when the constructor raises, that same error is the outcome of
\* weather_agent: no agent is returned and the "created successfully" line
\* is not logged.
ConstructorErrorPropagates ==
    (IsAgentCall /\ last.constructed.outcome = "raise")
        => /\ last.outcome = "raise"
           /\ last.error = last.constructed.error
           /\ "value" \notin DOMAIN last
           /\ \A i \in 1..Len(log) :
                log[i][2] /= "[weather_agent] Weather agent created successfully"
           /\ Len(log) = 3

ConstructorErrorWitness ==
    /\ IsAgentCall
    /\ last.constructed.outcome = "raise"
    /\ last.outcome = "raise"
    /\ last.error = "TypeError"

\* C10: whatever calls and caller writes came before, every get_weather
\* call returned the original literal record of its location (or the
\* original default record), so equal arguments gave equal results.
TableNeverObservablyMutated ==
    /\ \A ob \in observed :
         ob.record = DocumentedRecord(Lower(ob.location))
    /\ \A a \in observed, b \in observed :
         a.location = b.location => a.record = b.record

\* A caller overwrote the temperature of the seattle record it was given,
\* and a later get_weather("SEATTLE") returned a different object holding 11.
TableWitness ==
    /\ IsWeatherCall
    /\ Lower(last.location) = seattle
    /\ last.value.temperature = 11
    /\ \E ref \in DOMAIN heap :
         /\ ref /= last.ref
         /\ heap[ref].humidity = 75
         /\ heap[ref].temperature = 0 - 40

====
